---- MODULE Spec2Model ----
(***************************************************************************)
(* Model of the submission backends of sih-backend.  Four variants of the  *)
(* same service exist in the repository:                                    *)
(*   "server"   src/server.js          flat file, status + minted workflow *)
(*   "part_002" src/unnamed/part_002   flat file, full metadata view       *)
(*   "part_001" src/unnamed/part_001   flat file, submit and list only     *)
(*   "part_000" src/unnamed/part_000   remote table (supabase)             *)
(* A request handler is a sequence of steps separated by its awaits; the   *)
(* steps of different requests interleave.  The activations in flight are  *)
(* a bag: two activations in the same state are interchangeable.           *)
(***************************************************************************)
EXTENDS Integers, Sequences, FiniteSets, Bags, TLC

\* variant   which backend runs
\* jwt       PINATA_JWT is configured
\* store     the parsed content of submissions.json, or the rows of the table
\* inflight  the handler activations between arrival and response
\* resp      the activation answered by the last step (NoReq when it answered none)
\* arrived   requests accepted so far
\* nextId    uuids generated so far, plus one
\* clock     the time new Date() reads
\* acked     for every submit answered 201, the id of its record and the snapshot
\*           its handler had loaded (history, for the properties)
\* twin      the remote backend when it is run side by side with a flat-file one on
\*           the same requests: its table and its last answer (SpecPair only)
\* projects  the rows of the projects table of the remote variant (SpecProjects only)
VARIABLES variant, jwt, store, inflight, resp, arrived, nextId, clock, acked,
          twin, projects

vars == <<variant, jwt, store, inflight, resp, arrived, nextId, clock, acked,
          twin, projects>>

\* ---------------------------------------------------------------- bounds
MaxReq == 3        \* requests issued in one run
MaxInFlight == 2   \* requests between arrival and response at one time

\* ------------------------------------------------------------ JS values
Undefined == "<undefined>"
Null == "<null>"

\* the JSON number 0 of a request body (other numbers are written "<21.9>")
Zero == "<0>"

Falsy(v) == v \in {Undefined, Null, "", Zero}

\* a || b
Or(a, b) == IF Falsy(a) THEN b ELSE a

FlatVariants == {"server", "part_002", "part_001"}
Variants == FlatVariants \cup {"part_000"}

\* ------------------------------------------------------ request inputs
BodyFull == [name |-> "n1", description |-> "d1", applicantAddress |-> "0xA",
             latitude |-> "12.5", longitude |-> "77.1"]
BodyMin == [name |-> Undefined, description |-> "d2", applicantAddress |-> Undefined,
            latitude |-> Undefined, longitude |-> Undefined]
BodyEmptyDesc == [BodyFull EXCEPT !.description = ""]
BodyNoDesc == [BodyMin EXCEPT !.description = Undefined]

File1 == [originalname |-> "a.png", mimetype |-> "image/png", size |-> 1024]
\* req.file: <<>> when the multipart field is absent
NoFile == <<>>
\* the submit requests: two valid ones, and ones lacking the description, the file
SubmitInputs == {<<BodyFull, <<File1>>>>, <<BodyMin, <<File1>>>>,
                 <<BodyNoDesc, <<File1>>>>, <<BodyEmptyDesc, <<File1>>>>,
                 <<BodyFull, NoFile>>}

EvidenceA == [txHash |-> "0xa", tokenId |-> "1", metadataURI |-> "ipfs://m1"]
EvidencePartial == [txHash |-> "0xb", tokenId |-> Undefined, metadataURI |-> Undefined]
Evidences == {EvidenceA, EvidencePartial}

UUIDs == <<"u1", "u2", "u3", "u4", "u5", "u6">>
UnknownId == "u0"
\* ids a client may name: the ones generated so far and one never generated
KnownIds == {UUIDs[i] : i \in 1..(nextId - 1)} \cup {UnknownId}

Cid == "bafy1"

\* --------------------------------------------------------------- JSON
\* the keys whose value can be undefined in a record the handlers build
OptionalKeys == {"ipfsHash", "txHash", "tokenId", "metadataURI",
                 "ownership", "governance", "projectDescription", "area",
                 "establishmentDate"}

\* JSON.stringify of an object drops the keys whose value is undefined
StringifyObjectUndefinedAsNull(rec) ==
    [f \in DOMAIN rec |-> IF f \in OptionalKeys /\ rec[f] = Undefined THEN Null ELSE rec[f]]
StringifyObject(rec) ==
    [f \in {g \in DOMAIN rec : g \notin OptionalKeys \/ rec[g] # Undefined} |-> rec[f]]

\* JSON.stringify(arr, null, 2): the file content, as the JSON value it denotes
Stringify(arr) == [i \in 1..Len(arr) |-> StringifyObject(arr[i])]

\* JSON.parse of a file content
Parse(data) == data

\* obj.key of a parsed object: undefined when the key is absent
Get(rec, f) == IF f \in DOMAIN rec THEN rec[f] ELSE Undefined

\* ---------------------------------------------------------- flat file
\* fs.writeFile(DB_FILE, data): the whole file is replaced
WriteFileAppending(old, data) == old \o data
WriteFile(old, data) == data

\* loadSubmissions: the parsed file ([] when the file does not exist yet)
loadSubmissions == Parse(store)

\* saveSubmissions(arr): the store after the write
saveSubmissions(arr) == WriteFile(store, Stringify(arr))

\* -------------------------------------------------------- remote table
Columns == {"id", "applicantAddress", "title", "description", "latitude", "longitude",
            "ipfsHash", "imageUrl", "originalFileName", "mimeType", "size",
            "createdAt", "status", "txHash", "tokenId", "metadataURI"}

\* supabase .insert([rec]): the row stored, columns not sent are null
InsertRow(rec) ==
    LET sent == StringifyObject(rec)
    IN [c \in Columns |-> IF c \in DOMAIN sent THEN sent[c] ELSE Null]

\* supabase .update(patch): only the columns sent are changed
UpdateRow(row, patch) ==
    LET sent == StringifyObject(patch)
    IN [c \in DOMAIN row |-> IF c \in DOMAIN sent THEN sent[c] ELSE row[c]]

Perms(n) == {p \in [1..n -> 1..n] : \A i, j \in 1..n : i # j => p[i] # p[j]}

IsDescending(s) == \A i, j \in 1..Len(s) : i < j => s[i].createdAt >= s[j].createdAt

\* .order("createdAt", {ascending: false}): the orders the table may answer
OrderedDescending(rows) ==
    {s \in {[i \in 1..Len(rows) |-> rows[p[i]]] : p \in Perms(Len(rows))} : IsDescending(s)}

\* ------------------------------------------------------------ requests
\* a handler activation: the request, the handler's position and locals, its
\* response, and what it did so far (pinCalls, writes, pin, storeFailed, at)
NoReq == [kind |-> "none", pc |-> "idle", body |-> BodyNoDesc, file |-> <<>>,
          id |-> UnknownId, evidence |-> EvidenceA,
          submission |-> <<>>, submissions |-> <<>>, loaded |-> <<>>, idx |-> 0,
          code |-> 0, out |-> <<>>,
          pinCalls |-> 0, writes |-> 0, pin |-> "none", storeFailed |-> FALSE,
          at |-> "idle"]

Active == BagToSet(inflight)

\* a request can be accepted
Arrives ==
    /\ arrived < MaxReq
    /\ BagCardinality(inflight) < MaxInFlight

\* activation q suspends at an await as q2
Await(q, q2) == (inflight (-) SetToBag({q})) (+) SetToBag({q2})

\* activation q ends
EndsNot(q) == inflight
Ends(q) == inflight (-) SetToBag({q})

\* res.status(code).json(out), from the position q.pc
Respond(q, code, out) ==
    [q EXCEPT !.pc = "done", !.at = q.pc, !.code = code, !.out = out,
              !.submission = <<>>, !.submissions = <<>>]

\* a store call rejects or returns an error: the catch block answers
StoreErrorSwallowed(q, code) == Respond([q EXCEPT !.storeFailed = TRUE], 201, <<>>)
StoreError(q, code) == Respond([q EXCEPT !.storeFailed = TRUE], code, <<>>)

\* the side-by-side remote backend before any request
NoTwin == [store |-> <<>>, code |-> 0, out |-> <<>>]

Init ==
    /\ variant \in Variants
    /\ jwt \in BOOLEAN
    /\ store = <<>>
    /\ inflight = EmptyBag
    /\ resp = NoReq
    /\ arrived = 0
    /\ nextId = 1
    /\ clock = 1
    /\ acked = {}
    /\ twin = NoTwin
    /\ projects = <<>>

\* ------------------------------------------------------- POST submit
\* the record the handler assembles after the pin call
BuildSubmission(v, body, file, id, ipfsHash, ipfsUrl, now) ==
    IF v = "part_001"
    THEN [id |-> id, name |-> Or(body.name, Null),
          description |-> Or(body.description, Null),
          latitude |-> Or(body.latitude, Null), longitude |-> Or(body.longitude, Null),
          ipfsHash |-> ipfsHash, ipfsUrl |-> ipfsUrl,
          originalFileName |-> file.originalname, mimeType |-> file.mimetype,
          size |-> file.size, createdAt |-> now]
    ELSE [id |-> id, applicantAddress |-> Or(body.applicantAddress, Null),
          title |-> Or(body.name, Null),
          description |-> IF v = "part_000" THEN body.description
                          ELSE Or(body.description, Null),
          latitude |-> Or(body.latitude, Null), longitude |-> Or(body.longitude, Null),
          ipfsHash |-> ipfsHash, imageUrl |-> ipfsUrl,
          originalFileName |-> file.originalname, mimeType |-> file.mimetype,
          size |-> file.size, createdAt |-> now, status |-> "pending"]

\* validation of a submit request: the status of the early return, 0 when it passes
ValidateSubmitPresenceOnly(v, jwtSet, body, file) ==
    IF body.description = Undefined THEN 400
    ELSE IF file = NoFile THEN 400
    ELSE IF v # "part_000" /\ ~jwtSet THEN 500
    ELSE 0
ValidateSubmitCredentialFirst(v, jwtSet, body, file) ==
    IF v # "part_000" /\ ~jwtSet THEN 500
    ELSE IF Falsy(body.description) THEN 400
    ELSE IF file = NoFile THEN 400
    ELSE 0
ValidateSubmit(v, jwtSet, body, file) ==
    IF Falsy(body.description) THEN 400
    ELSE IF file = NoFile THEN 400
    ELSE IF v # "part_000" /\ ~jwtSet THEN 500
    ELSE 0

\* the handler up to its first await: validation, then the pin call is issued
SubmitData ==
    /\ Arrives
    /\ \E in \in SubmitInputs :
         LET q == [NoReq EXCEPT !.kind = "submit", !.body = in[1], !.file = in[2]]
             early == ValidateSubmit(variant, jwt, in[1], in[2])
         IN IF early # 0
            THEN /\ resp' = Respond(q, early, <<>>)
                 /\ UNCHANGED inflight
            ELSE /\ inflight' = inflight (+) SetToBag({[q EXCEPT !.pc = "pin",
                                                                  !.pinCalls = @ + 1]})
                 /\ resp' = NoReq
    /\ arrived' = arrived + 1
    /\ UNCHANGED <<twin, projects, variant, jwt, store, nextId, clock, acked>>

\* what the pinning service can answer: "fail" is an unreachable service or a
\* non-success status (axios throws), "nohash" a success without IpfsHash.
\* Without PINATA_JWT only part_000 gets here, with "Bearer undefined", which
\* the service refuses.
PinOutcomes == IF jwt THEN {"ok", "nohash", "fail"} ELSE {"fail"}

\* axios rejects when the service is unreachable or answers a non-2xx status
PinNeverThrows(o) == FALSE
PinThrows(o) == o = "fail"

\* axios.post returns or throws; the record is assembled and the store call issued
PinReturn(q) ==
    /\ q.kind = "submit" /\ q.pc = "pin"
    /\ \E o \in PinOutcomes :
         IF PinThrows(o)
         THEN /\ resp' = Respond([q EXCEPT !.pin = o], 500, <<>>)
              /\ inflight' = Ends(q)
              /\ UNCHANGED <<nextId, clock>>
         ELSE LET ipfsHash == IF o = "ok" THEN Cid ELSE Undefined
                  ipfsUrl == IF ~Falsy(ipfsHash)
                             THEN "https://gateway.pinata.cloud/ipfs/" \o ipfsHash
                             ELSE Null
                  submission == BuildSubmission(variant, q.body, q.file[1],
                                                UUIDs[nextId], ipfsHash, ipfsUrl, clock)
              IN /\ inflight' = Await(q,
                        [q EXCEPT !.pin = o, !.submission = <<submission>>,
                                  !.pc = IF variant = "part_000" THEN "insert" ELSE "load"])
                 /\ resp' = NoReq
                 /\ nextId' = nextId + 1
                 /\ clock' = clock + 1
    /\ UNCHANGED <<twin, projects, variant, jwt, store, arrived, acked>>

\* submissions.push(submission)
Push(submissions, submission) == Append(submissions, submission)

\* loadSubmissions returns or throws; push; the save is issued
SubmitLoadReturn(q) ==
    /\ q.kind = "submit" /\ q.pc = "load"
    /\ \E ok \in BOOLEAN :
         IF ok
         THEN /\ inflight' = Await(q,
                    [q EXCEPT !.loaded = loadSubmissions,
                              !.submissions = Push(loadSubmissions, q.submission[1]),
                              !.pc = "save"])
              /\ resp' = NoReq
         ELSE /\ inflight' = Ends(q)
              /\ resp' = StoreError(q, 500)
    /\ UNCHANGED <<twin, projects, variant, jwt, store, arrived, nextId, clock, acked>>

\* saveSubmissions returns or throws; the response
SubmitSaveReturn(q) ==
    /\ q.kind = "submit" /\ q.pc = "save"
    /\ inflight' = Ends(q)
    /\ \E ok \in BOOLEAN :
         IF ok
         THEN /\ store' = saveSubmissions(q.submissions)
              /\ resp' = Respond([q EXCEPT !.writes = @ + 1], 201, Stringify(q.submission))
              /\ acked' = acked \cup {[id |-> q.submission[1].id, loaded |-> q.loaded]}
         ELSE /\ resp' = StoreError(q, 500)
              /\ UNCHANGED <<store, acked>>
    /\ UNCHANGED <<twin, projects, variant, jwt, arrived, nextId, clock>>

\* supabase insert returns data or error; the response
SubmitInsertReturn(q) ==
    /\ q.kind = "submit" /\ q.pc = "insert"
    /\ inflight' = Ends(q)
    /\ \E ok \in BOOLEAN :
         IF ok
         THEN /\ store' = Append(store, InsertRow(q.submission[1]))
              /\ resp' = Respond([q EXCEPT !.writes = @ + 1], 201, Stringify(q.submission))
              /\ acked' = acked \cup {[id |-> q.submission[1].id, loaded |-> q.loaded]}
         ELSE /\ resp' = StoreError(q, 500)
              /\ UNCHANGED <<store, acked>>
    /\ UNCHANGED <<twin, projects, variant, jwt, arrived, nextId, clock>>

\* ------------------------------------------------------------ GET list
\* (part_001 wraps the array as { submissions }; out is the array in all variants)
GetSubmissions ==
    /\ Arrives
    /\ inflight' = inflight (+) SetToBag({[NoReq EXCEPT !.kind = "list", !.pc = "select"]})
    /\ resp' = NoReq
    /\ arrived' = arrived + 1
    /\ UNCHANGED <<twin, projects, variant, jwt, store, nextId, clock, acked>>

GetSubmissionsReturn(q) ==
    /\ q.kind = "list" /\ q.pc = "select"
    /\ inflight' = Ends(q)
    /\ \E ok \in BOOLEAN :
         IF ~ok THEN resp' = StoreError(q, 500)
         ELSE IF variant = "part_000"
         THEN \E data \in OrderedDescending(store) : resp' = Respond(q, 200, data)
         ELSE resp' = Respond(q, 200, Stringify(loadSubmissions))
    /\ UNCHANGED <<twin, projects, variant, jwt, store, arrived, nextId, clock, acked>>

\* ----------------------------------------------- GET /:id/metadata
\* submissions.find / findIndex: the first index whose id matches, 0 when none
FindIndex(subs, id) ==
    IF \E i \in 1..Len(subs) : subs[i].id = id
    THEN CHOOSE i \in 1..Len(subs) :
            /\ subs[i].id = id
            /\ \A j \in 1..(i - 1) : subs[j].id # id
    ELSE 0

\* the token metadata derived from a record
MetadataView(v, sub) ==
    IF v = "server"
    THEN [metadataURI |-> Get(sub, "imageUrl")]
    ELSE [name |-> Or(Get(sub, "title"), "Untitled Submission"),
          description |-> Or(Get(sub, "description"), ""),
          image |-> Get(sub, "imageUrl"),
          metadataURI |-> Get(sub, "imageUrl"),
          attributes |->
            <<[trait_type |-> "Applicant Address", value |-> Get(sub, "applicantAddress")],
              [trait_type |-> "Latitude", value |-> Get(sub, "latitude")],
              [trait_type |-> "Longitude", value |-> Get(sub, "longitude")]>>]

GetMetadata ==
    /\ Arrives
    /\ variant # "part_001"
    /\ \E id \in KnownIds :
         inflight' = inflight (+) SetToBag({[NoReq EXCEPT !.kind = "metadata", !.id = id,
                                                          !.pc = "select"]})
    /\ resp' = NoReq
    /\ arrived' = arrived + 1
    /\ UNCHANGED <<twin, projects, variant, jwt, store, nextId, clock, acked>>

GetMetadataReturn(q) ==
    /\ q.kind = "metadata" /\ q.pc = "select"
    /\ inflight' = Ends(q)
    /\ \E ok \in BOOLEAN :
         LET subs == IF variant = "part_000" THEN store ELSE loadSubmissions
             idx == FindIndex(subs, q.id)
         IN resp' = IF ~ok THEN StoreError(q, IF variant = "part_000" THEN 404 ELSE 500)
                    ELSE IF idx = 0 THEN Respond(q, 404, <<>>)
                    ELSE Respond(q, 200, <<MetadataView(variant, subs[idx])>>)
    /\ UNCHANGED <<twin, projects, variant, jwt, store, arrived, nextId, clock, acked>>

\* ------------------------------------------------ POST /:id/minted
\* { status: "approved", txHash, tokenId, metadataURI }
MintedPatch(ev) ==
    [status |-> "approved", txHash |-> ev.txHash, tokenId |-> ev.tokenId,
     metadataURI |-> ev.metadataURI]

\* { ...old, ...patch }
SpreadOldWins(old, patch) ==
    [f \in DOMAIN old \cup DOMAIN patch |-> IF f \in DOMAIN old THEN old[f] ELSE patch[f]]
Spread(old, patch) ==
    [f \in DOMAIN old \cup DOMAIN patch |-> IF f \in DOMAIN patch THEN patch[f] ELSE old[f]]

\* submissions[idx] = { ...submissions[idx], status: "approved", ... }
MarkMinted(subs, idx, ev) == [subs EXCEPT ![idx] = Spread(subs[idx], MintedPatch(ev))]

\* supabase .update(patch).eq("id", id): the table after the update
UpdateWhereUnfiltered(rows, id, patch) ==
    [i \in 1..Len(rows) |-> UpdateRow(rows[i], patch)]
UpdateWhere(rows, id, patch) ==
    [i \in 1..Len(rows) |-> IF rows[i].id = id THEN UpdateRow(rows[i], patch) ELSE rows[i]]

PostMinted ==
    /\ Arrives
    /\ variant # "part_001"
    /\ \E id \in KnownIds, ev \in Evidences :
         inflight' = inflight (+) SetToBag({
                        [NoReq EXCEPT !.kind = "minted", !.id = id, !.evidence = ev,
                                      !.pc = IF variant = "part_000" THEN "update"
                                             ELSE "load"]})
    /\ resp' = NoReq
    /\ arrived' = arrived + 1
    /\ UNCHANGED <<twin, projects, variant, jwt, store, nextId, clock, acked>>

\* loadSubmissions returns or throws; the record is replaced in memory; the save is issued
MintedLoadReturn(q) ==
    /\ q.kind = "minted" /\ q.pc = "load"
    /\ \E ok \in BOOLEAN :
         LET subs == loadSubmissions
             idx == FindIndex(subs, q.id)
         IN IF ok /\ idx # 0
            THEN /\ inflight' = Await(q,
                       [q EXCEPT !.loaded = subs, !.idx = idx,
                                 !.submissions = MarkMinted(subs, idx, q.evidence),
                                 !.pc = "save"])
                 /\ resp' = NoReq
            ELSE /\ inflight' = Ends(q)
                 /\ resp' = IF ~ok THEN StoreError(q, 500)
                            ELSE Respond([q EXCEPT !.loaded = subs], 404, <<>>)
    /\ UNCHANGED <<twin, projects, variant, jwt, store, arrived, nextId, clock, acked>>

\* saveSubmissions returns or throws; the response
MintedSaveReturn(q) ==
    /\ q.kind = "minted" /\ q.pc = "save"
    /\ inflight' = Ends(q)
    /\ \E ok \in BOOLEAN :
         IF ok
         THEN /\ store' = saveSubmissions(q.submissions)
              /\ resp' = Respond([q EXCEPT !.writes = @ + 1], 200,
                                 <<StringifyObject(q.submissions[q.idx])>>)
         ELSE /\ resp' = StoreError(q, 500)
              /\ UNCHANGED store
    /\ UNCHANGED <<twin, projects, variant, jwt, arrived, nextId, clock, acked>>

\* supabase update(...).eq(...).select().single() returns data or error
MintedUpdateReturn(q) ==
    /\ q.kind = "minted" /\ q.pc = "update"
    /\ inflight' = Ends(q)
    /\ \E ok \in BOOLEAN :
         LET idx == FindIndex(store, q.id)
             rows == UpdateWhere(store, q.id, MintedPatch(q.evidence))
         IN IF ok /\ idx # 0
            THEN /\ store' = rows
                 /\ resp' = Respond([q EXCEPT !.writes = @ + 1], 200, <<rows[idx]>>)
            ELSE /\ resp' = IF ok THEN Respond(q, 500, <<>>) ELSE StoreError(q, 500)
                 /\ UNCHANGED store
    /\ UNCHANGED <<twin, projects, variant, jwt, arrived, nextId, clock, acked>>

Next ==
    \/ SubmitData
    \/ \E q \in Active : PinReturn(q)
    \/ \E q \in Active : SubmitLoadReturn(q)
    \/ \E q \in Active : SubmitSaveReturn(q)
    \/ \E q \in Active : SubmitInsertReturn(q)
    \/ GetSubmissions
    \/ \E q \in Active : GetSubmissionsReturn(q)
    \/ GetMetadata
    \/ \E q \in Active : GetMetadataReturn(q)
    \/ PostMinted
    \/ \E q \in Active : MintedLoadReturn(q)
    \/ \E q \in Active : MintedSaveReturn(q)
    \/ \E q \in Active : MintedUpdateReturn(q)

Spec == Init /\ [][Next]_vars

\* ------------------------------------------- src/server.js, calls that return
\* The routes of src/server.js alone, under the assumption that every outbound
\* call (pin, load, save) that is pending eventually returns.
ServerInit ==
    /\ variant = "server"
    /\ jwt \in BOOLEAN
    /\ store = <<>>
    /\ inflight = EmptyBag
    /\ resp = NoReq
    /\ arrived = 0
    /\ nextId = 1
    /\ clock = 1
    /\ acked = {}
    /\ twin = NoTwin
    /\ projects = <<>>

\* a pending call of some activation returns
CallReturns ==
    \E q \in Active :
      \/ PinReturn(q)
      \/ SubmitLoadReturn(q)
      \/ SubmitSaveReturn(q)
      \/ GetSubmissionsReturn(q)
      \/ GetMetadataReturn(q)
      \/ MintedLoadReturn(q)
      \/ MintedSaveReturn(q)

ServerNext ==
    \/ SubmitData
    \/ GetSubmissions
    \/ GetMetadata
    \/ PostMinted
    \/ CallReturns

SpecServerFair == ServerInit /\ [][ServerNext]_vars /\ WF_vars(CallReturns)

\* ------------------------------------------- the two backends side by side
\* A flat-file backend (store, resp) and the remote backend (twin) answer the
\* same requests one after the other, with the same uuid, time and pin answer;
\* every store call succeeds.  Each action is one whole handler, on both sides.
PairInit ==
    /\ variant \in {"server", "part_002"}
    /\ jwt = TRUE
    /\ store = <<>>
    /\ inflight = EmptyBag
    /\ resp = NoReq
    /\ arrived = 0
    /\ nextId = 1
    /\ clock = 1
    /\ acked = {}
    /\ twin = NoTwin
    /\ projects = <<>>

\* const ipfsHash = pinataRes.data.IpfsHash
PinnedHash(o) == IF o = "ok" THEN Cid ELSE Undefined

\* ipfsHash ? `https://gateway.pinata.cloud/ipfs/${ipfsHash}` : null
GatewayUrl(ipfsHash) ==
    IF ~Falsy(ipfsHash) THEN "https://gateway.pinata.cloud/ipfs/" \o ipfsHash ELSE Null

\* the remote backend answers
TwinAnswers(rows, code, out) == [store |-> rows, code |-> code, out |-> out]

PairSubmit ==
    /\ arrived < MaxReq
    /\ \E in \in SubmitInputs, o \in PinOutcomes :
         LET q == [NoReq EXCEPT !.kind = "submit", !.body = in[1], !.file = in[2]]
             early == ValidateSubmit(variant, jwt, in[1], in[2])
             earlyT == ValidateSubmit("part_000", jwt, in[1], in[2])
             ipfsHash == PinnedHash(o)
             submission == BuildSubmission(variant, in[1], in[2][1], UUIDs[nextId],
                                           ipfsHash, GatewayUrl(ipfsHash), clock)
             submissionT == BuildSubmission("part_000", in[1], in[2][1], UUIDs[nextId],
                                            ipfsHash, GatewayUrl(ipfsHash), clock)
         IN /\ IF early # 0
               THEN resp' = Respond(q, early, <<>>) /\ UNCHANGED store
               ELSE IF PinThrows(o)
               THEN /\ resp' = Respond([q EXCEPT !.pinCalls = 1, !.pin = o], 500, <<>>)
                    /\ UNCHANGED store
               ELSE /\ store' = saveSubmissions(Push(loadSubmissions, submission))
                    /\ resp' = Respond([q EXCEPT !.pinCalls = 1, !.pin = o, !.writes = 1],
                                       201, Stringify(<<submission>>))
            /\ twin' = IF earlyT # 0 THEN TwinAnswers(twin.store, earlyT, <<>>)
                       ELSE IF PinThrows(o) THEN TwinAnswers(twin.store, 500, <<>>)
                       ELSE TwinAnswers(Append(twin.store, InsertRow(submissionT)),
                                        201, Stringify(<<submissionT>>))
            /\ IF early = 0 /\ ~PinThrows(o)
               THEN nextId' = nextId + 1 /\ clock' = clock + 1
               ELSE UNCHANGED <<nextId, clock>>
    /\ arrived' = arrived + 1
    /\ UNCHANGED <<variant, jwt, inflight, acked, projects>>

PairList ==
    /\ arrived < MaxReq
    /\ resp' = Respond([NoReq EXCEPT !.kind = "list"], 200, Stringify(loadSubmissions))
    /\ \E data \in OrderedDescending(twin.store) :
         twin' = TwinAnswers(twin.store, 200, data)
    /\ arrived' = arrived + 1
    /\ UNCHANGED <<variant, jwt, store, inflight, nextId, clock, acked, projects>>

PairMetadata ==
    /\ arrived < MaxReq
    /\ \E id \in KnownIds :
         LET q == [NoReq EXCEPT !.kind = "metadata", !.id = id]
             idx == FindIndex(loadSubmissions, id)
             idxT == FindIndex(twin.store, id)
         IN /\ resp' = IF idx = 0 THEN Respond(q, 404, <<>>)
                       ELSE Respond(q, 200, <<MetadataView(variant, loadSubmissions[idx])>>)
            /\ twin' = IF idxT = 0 THEN TwinAnswers(twin.store, 404, <<>>)
                       ELSE TwinAnswers(twin.store, 200,
                                        <<MetadataView("part_000", twin.store[idxT])>>)
    /\ arrived' = arrived + 1
    /\ UNCHANGED <<variant, jwt, store, inflight, nextId, clock, acked, projects>>

PairMinted ==
    /\ arrived < MaxReq
    /\ \E id \in KnownIds, ev \in Evidences :
         LET q == [NoReq EXCEPT !.kind = "minted", !.id = id, !.evidence = ev]
             idx == FindIndex(loadSubmissions, id)
             submissions == MarkMinted(loadSubmissions, idx, ev)
             idxT == FindIndex(twin.store, id)
             rows == UpdateWhere(twin.store, id, MintedPatch(ev))
         IN /\ IF idx = 0
               THEN resp' = Respond(q, 404, <<>>) /\ UNCHANGED store
               ELSE /\ store' = saveSubmissions(submissions)
                    /\ resp' = Respond([q EXCEPT !.writes = 1], 200,
                                       <<StringifyObject(submissions[idx])>>)
            /\ twin' = IF idxT = 0 THEN TwinAnswers(twin.store, 500, <<>>)
                       ELSE TwinAnswers(rows, 200, <<rows[idxT]>>)
    /\ arrived' = arrived + 1
    /\ UNCHANGED <<variant, jwt, inflight, nextId, clock, acked, projects>>

PairNext == PairSubmit \/ PairList \/ PairMetadata \/ PairMinted

SpecPair == PairInit /\ [][PairNext]_vars

\* ------------------------------------------------- projects (part_000)
\* The projects routes of the remote variant, on their own table.
RequiredProjectFields == {"projectId", "projectName", "latitude", "longitude",
                          "ecosystemType", "implementingAgency"}

ProjectColumns == RequiredProjectFields \cup
                  {"ownership", "governance", "projectDescription", "area",
                   "establishmentDate", "status", "createdAt"}

\* JSON bodies of POST /api/projects
ProjectFull == [projectId |-> "p1", projectName |-> "Sundarbans", latitude |-> "<21.9>",
                longitude |-> "<88.9>", ecosystemType |-> "mangrove",
                ownership |-> "state", governance |-> "panchayat",
                implementingAgency |-> "agency", projectDescription |-> "pd",
                area |-> "<12>", establishmentDate |-> "2020-01-01"]
ProjectMin == [projectId |-> "p2", projectName |-> "Seagrass", latitude |-> "<9.1>",
               longitude |-> "<79.2>", ecosystemType |-> "seagrass",
               ownership |-> Undefined, governance |-> Undefined,
               implementingAgency |-> "agency", projectDescription |-> Undefined,
               area |-> Undefined, establishmentDate |-> Undefined]
\* a site on the equator, one on the prime meridian
ProjectEquator == [ProjectFull EXCEPT !.latitude = Zero]
ProjectMeridian == [ProjectMin EXCEPT !.longitude = Zero]
ProjectNoAgency == [ProjectFull EXCEPT !.implementingAgency = Undefined]
ProjectEmptyName == [ProjectMin EXCEPT !.projectName = ""]
ProjectBodies == {ProjectFull, ProjectMin, ProjectEquator, ProjectMeridian,
                  ProjectNoAgency, ProjectEmptyName}

\* ids a client may name in PUT /api/projects/:id/submit
ProjectIds == {"p1", "p2", "p0"}

\* !projectId || !projectName || !latitude || !longitude || !ecosystemType || !implementingAgency
MissingRequiredFields(body) == \E f \in RequiredProjectFields : Falsy(body[f])

\* the object handed to insert
BuildProject(body, now) ==
    [c \in ProjectColumns |-> IF c = "status" THEN "draft"
                              ELSE IF c = "createdAt" THEN now
                              ELSE body[c]]

\* supabase .insert([rec]) on projects: the row stored, columns not sent are null
InsertProjectRow(rec) ==
    LET sent == StringifyObject(rec)
    IN [c \in ProjectColumns |-> IF c \in DOMAIN sent THEN sent[c] ELSE Null]

ProjectsInit ==
    /\ variant = "part_000"
    /\ jwt = TRUE
    /\ store = <<>>
    /\ inflight = EmptyBag
    /\ resp = NoReq
    /\ arrived = 0
    /\ nextId = 1
    /\ clock = 1
    /\ acked = {}
    /\ twin = NoTwin
    /\ projects = <<>>

\* POST /api/projects up to its await: validation, then the insert is issued
PostProject ==
    /\ Arrives
    /\ \E body \in ProjectBodies :
         LET q == [NoReq EXCEPT !.kind = "project", !.body = body]
         IN IF MissingRequiredFields(body)
            THEN /\ resp' = Respond(q, 400, <<>>)
                 /\ UNCHANGED <<inflight, clock>>
            ELSE /\ inflight' = inflight (+) SetToBag({
                        [q EXCEPT !.pc = "insert",
                                  !.submission = <<BuildProject(body, clock)>>]})
                 /\ resp' = NoReq
                 /\ clock' = clock + 1
    /\ arrived' = arrived + 1
    /\ UNCHANGED <<variant, jwt, store, nextId, acked, twin, projects>>

\* insert(...).select().single() returns data or error; the response
PostProjectReturn(q) ==
    /\ q.kind = "project" /\ q.pc = "insert"
    /\ inflight' = Ends(q)
    /\ \E ok \in BOOLEAN :
         IF ok
         THEN /\ projects' = Append(projects, InsertProjectRow(q.submission[1]))
              /\ resp' = Respond([q EXCEPT !.writes = @ + 1], 201,
                                 <<InsertProjectRow(q.submission[1])>>)
         ELSE /\ resp' = StoreError(q, 500)
              /\ UNCHANGED projects
    /\ UNCHANGED <<variant, jwt, store, arrived, nextId, clock, acked, twin>>

\* GET /api/projects
GetProjects ==
    /\ Arrives
    /\ inflight' = inflight (+) SetToBag({[NoReq EXCEPT !.kind = "projects",
                                                         !.pc = "select"]})
    /\ resp' = NoReq
    /\ arrived' = arrived + 1
    /\ UNCHANGED <<variant, jwt, store, nextId, clock, acked, twin, projects>>

GetProjectsReturn(q) ==
    /\ q.kind = "projects" /\ q.pc = "select"
    /\ inflight' = Ends(q)
    /\ \E ok \in BOOLEAN :
         IF ok
         THEN \E data \in OrderedDescending(projects) : resp' = Respond(q, 200, data)
         ELSE resp' = StoreError(q, 500)
    /\ UNCHANGED <<variant, jwt, store, arrived, nextId, clock, acked, twin, projects>>

\* PUT /api/projects/:id/submit
PutProjectSubmit ==
    /\ Arrives
    /\ \E id \in ProjectIds :
         inflight' = inflight (+) SetToBag({[NoReq EXCEPT !.kind = "projectSubmit",
                                                          !.id = id, !.pc = "update"]})
    /\ resp' = NoReq
    /\ arrived' = arrived + 1
    /\ UNCHANGED <<variant, jwt, store, nextId, clock, acked, twin, projects>>

\* update({status: "submitted"}).eq("projectId", id).select().single(): an
\* error unless exactly one row matches
PutProjectSubmitReturn(q) ==
    /\ q.kind = "projectSubmit" /\ q.pc = "update"
    /\ inflight' = Ends(q)
    /\ \E ok \in BOOLEAN :
         LET matches == {i \in 1..Len(projects) : projects[i].projectId = q.id}
             rows == [i \in 1..Len(projects) |->
                        IF i \in matches
                        THEN UpdateRow(projects[i], [status |-> "submitted"])
                        ELSE projects[i]]
         IN IF ok /\ Cardinality(matches) = 1
            THEN /\ projects' = rows
                 /\ resp' = Respond([q EXCEPT !.writes = @ + 1], 200,
                                    <<rows[CHOOSE i \in matches : TRUE]>>)
            ELSE /\ resp' = IF ok THEN Respond(q, 500, <<>>) ELSE StoreError(q, 500)
                 /\ UNCHANGED projects
    /\ UNCHANGED <<variant, jwt, store, arrived, nextId, clock, acked, twin>>

ProjectsNext ==
    \/ PostProject
    \/ \E q \in Active : PostProjectReturn(q)
    \/ GetProjects
    \/ \E q \in Active : GetProjectsReturn(q)
    \/ PutProjectSubmit
    \/ \E q \in Active : PutProjectSubmitReturn(q)

SpecProjects == ProjectsInit /\ [][ProjectsNext]_vars

\* ================================================================ claims
\* a request was answered by the step that led to this state
Answered == resp.pc = "done"

InStore(st, id) == \E i \in 1..Len(st) : st[i].id = id

EvidenceKeys == {"txHash", "tokenId", "metadataURI"}

\* C1: a submit request without a non-empty description, or without the file,
\* is answered 400, has made no pin call and no store write, and the step that
\* answers it leaves the store as it was.
C1_InvalidSubmit ==
    [][(/\ resp'.pc = "done"
        /\ resp'.kind = "submit"
        /\ (Falsy(resp'.body.description) \/ resp'.file = NoFile))
       => /\ resp'.code = 400
          /\ resp'.pinCalls = 0
          /\ resp'.writes = 0
          /\ store' = store]_vars

C1_Witness ==
    /\ Answered /\ resp.kind = "submit" /\ resp.code = 400
    /\ resp.body.description = "" /\ resp.file # NoFile
    /\ Len(store) > 0

\* C2: when the pin call of a submit request fails, the request is answered
\* with an error, it has written nothing, and the store is as it was.
C2_PinFailure ==
    [][(resp'.pc = "done" /\ resp'.kind = "submit" /\ resp'.pin = "fail")
       => /\ resp'.code = 500
          /\ resp'.writes = 0
          /\ store' = store]_vars

C2_Witness ==
    /\ Answered /\ resp.kind = "submit" /\ resp.pin = "fail" /\ resp.code = 500
    /\ jwt
    /\ Len(store) > 0

\* the record rec is in the store st, field by field
Persisted(st, rec) ==
    \E i \in 1..Len(st) : \A f \in DOMAIN rec : Get(st[i], f) = rec[f]

\* C3 (as claimed): every valid submit whose pin and store calls succeed is
\* answered 201 with a record that has the submitted description and status
\* "pending", and that record is the one persisted, in every variant.
C3_Claim ==
    (/\ Answered
     /\ resp.kind = "submit"
     /\ resp.pin \in {"ok", "nohash"}
     /\ ~resp.storeFailed)
    => /\ resp.code = 201
       /\ Get(resp.out[1], "description") = resp.body.description
       /\ Get(resp.out[1], "status") = "pending"
       /\ Persisted(store, resp.out[1])

\* C4 (as claimed): every stored record has a non-empty description and a
\* content identifier, and a submit whose pin answer omits the content
\* identifier fails and writes nothing.
C4_Claim ==
    /\ \A i \in 1..Len(store) :
         /\ ~Falsy(Get(store[i], "description"))
         /\ ~Falsy(Get(store[i], "ipfsHash"))
    /\ (Answered /\ resp.kind = "submit" /\ resp.pin = "nohash")
       => (resp.code # 201 /\ resp.writes = 0)

\* C5 (as claimed): markMinted on an id that is not in the store is answered
\* 404 and leaves the store unchanged, in the flat-file and the remote variants.
C5_Claim ==
    [][(/\ resp'.pc = "done"
        /\ resp'.kind = "minted"
        /\ resp'.at \in {"load", "update"}
        /\ ~resp'.storeFailed
        /\ ~InStore(store, resp'.id))
       => (resp'.code = 404 /\ store' = store)]_vars

\* the store after markMinted(id, ev) is applied to the store st
ApplyMinted(st, id, ev) ==
    IF variant = "part_000" THEN UpdateWhere(st, id, MintedPatch(ev))
    ELSE Stringify(MarkMinted(Parse(st), FindIndex(Parse(st), id), ev))

\* C6: a markMinted answered with success leaves the record with status
\* "approved" and with every supplied evidence field equal to the supplied
\* value (in the flat-file variants a field that was not supplied is absent),
\* whatever the prior status; applying the same call again changes nothing.
C6_MarkMinted ==
    (Answered /\ resp.kind = "minted" /\ resp.code = 200)
    => LET rec == store[FindIndex(store, resp.id)]
       IN /\ InStore(store, resp.id)
          /\ Get(rec, "status") = "approved"
          /\ \A f \in EvidenceKeys :
               /\ resp.evidence[f] # Undefined => Get(rec, f) = resp.evidence[f]
               /\ (resp.evidence[f] = Undefined /\ variant \in FlatVariants)
                  => f \notin DOMAIN rec
          /\ resp.out = <<rec>>
          /\ ApplyMinted(store, resp.id, resp.evidence) = store

C6_Witness ==
    /\ variant \in FlatVariants
    /\ Answered /\ resp.kind = "minted" /\ resp.code = 200
    /\ resp.evidence = EvidencePartial
    /\ Get(resp.loaded[resp.idx], "status") = "approved"
    /\ Get(resp.loaded[resp.idx], "tokenId") = "1"

\* C7 (as claimed): every list answer is ordered by creation time descending,
\* in every variant.
C7_Claim ==
    (Answered /\ resp.kind = "list" /\ resp.code = 200) => IsDescending(resp.out)

\* two submit requests that loaded the same snapshot and were both answered 201
RacedSubmits(a, b) ==
    /\ a.id # b.id
    /\ variant \in FlatVariants
    /\ a.loaded = b.loaded

\* C8: in the flat-file variants, two submit requests that loaded the same
\* snapshot and were both answered 201 never have both their records in the
\* store: the later save discards the earlier append.
C8_LostUpdate ==
    \A a, b \in acked :
      RacedSubmits(a, b) => ~(InStore(store, a.id) /\ InStore(store, b.id))

C8_Witness ==
    \E a, b \in acked :
      /\ RacedSubmits(a, b)
      /\ Len(store) = Len(b.loaded) + 1
      /\ SubSeq(store, 1, Len(b.loaded)) = b.loaded
      /\ store[Len(store)].id = b.id
      /\ ~InStore(store, a.id)

\* C9 (as claimed): in the flat-file variants an id that is in the store is
\* in the store in every later state.
C9_Claim ==
    [][\A i \in 1..Len(store) :
         variant \in FlatVariants => InStore(store', store[i].id)]_vars

\* C10 (as claimed): in the flat-file variants a record whose stored status
\* is "approved" is never "pending" in a later state.
C10_Claim ==
    [][\A i \in 1..Len(store) :
         (variant \in FlatVariants /\ Get(store[i], "status") = "approved")
         => \A j \in 1..Len(store') :
              store'[j].id = store[i].id => Get(store'[j], "status") # "pending"]_vars

\* C11: in the remote variant every record of a submit answered 201 is in the
\* table in every later state, rows keep their place and their id, and a row
\* changes only by the step that answers a markMinted on its id with success,
\* which applies exactly that request's update to the row as it then is.
C11_NoLostUpdate ==
    [][variant = "part_000" =>
         /\ \A a \in acked' : InStore(store', a.id)
         /\ Len(store') >= Len(store)
         /\ \A i \in 1..Len(store) :
              IF /\ resp'.pc = "done" /\ resp'.kind = "minted" /\ resp'.code = 200
                 /\ resp'.id = store[i].id
              THEN store'[i] = UpdateRow(store[i], MintedPatch(resp'.evidence))
              ELSE store'[i] = store[i]]_vars

\* a markMinted is answered with success while a submit awaits its insert,
\* next to a record inserted before
C11_Witness ==
    /\ variant = "part_000"
    /\ Answered /\ resp.kind = "minted" /\ resp.code = 200
    /\ resp.evidence = EvidencePartial
    /\ \E q \in Active : q.kind = "submit" /\ q.pc = "insert"
    /\ \E i \in 1..Len(store) : store[i].id = resp.id /\ store[i].txHash = "0xb"

\* C12 (as claimed): run on the same requests one after the other, a flat-file
\* backend and the remote backend answer every request with the same status
\* code and the same content, list order included.
C12_Claim == resp.code = twin.code /\ resp.out = twin.out

\* every field reads the same in a and in b (a key that is absent reads undefined)
SameFields(a, b) == \A f \in DOMAIN a \cup DOMAIN b : Get(a, f) = Get(b, f)

ViewOf(view, rec) ==
    /\ {"name", "description", "image", "attributes"} \subseteq DOMAIN view
    /\ Falsy(Get(rec, "title")) \/ view.name = Get(rec, "title")
    /\ Falsy(Get(rec, "description")) \/ view.description = Get(rec, "description")
    /\ view.image = Get(rec, "imageUrl")
    /\ Len(view.attributes) = 3
    /\ view.attributes[1].value = Get(rec, "applicantAddress")
    /\ view.attributes[2].value = Get(rec, "latitude")
    /\ view.attributes[3].value = Get(rec, "longitude")

\* C14 (as claimed): a metadata request for an id in the store is never
\* answered 404 and, when the store read succeeds, is answered with the view of
\* that record; for an id not in the store the answer is 404.
C14_Claim ==
    (Answered /\ resp.kind = "metadata")
    => IF InStore(store, resp.id)
       THEN /\ resp.code # 404
            /\ ~resp.storeFailed
               => /\ resp.code = 200
                  /\ ViewOf(resp.out[1], store[FindIndex(store, resp.id)])
       ELSE ~resp.storeFailed => resp.code = 404

\* C15: when the store write of a submit fails (the save of the flat file, the
\* insert of the remote table), after a pin that succeeded, the request is
\* answered 500, the store holds no record of the request, and the request has
\* made its one pin call and no other call to the service.
C15_WriteFailure ==
    [][\A q \in Active :
         (/\ q.kind = "submit" /\ q.pc \in {"save", "insert"}
          /\ inflight' = Ends(q)
          /\ resp'.pc = "done" /\ resp'.storeFailed)
         => /\ resp'.code = 500
            /\ resp'.pin \in {"ok", "nohash"}
            /\ resp'.pinCalls = 1
            /\ resp'.writes = 0
            /\ ~InStore(store', q.submission[1].id)]_vars

C15_Witness ==
    /\ Answered /\ resp.kind = "submit" /\ resp.storeFailed
    /\ resp.at \in {"save", "insert"}
    /\ resp.pin = "ok" /\ resp.code = 500
    /\ Len(store) > 0

\* a value was supplied and is not empty
Supplied(v) == v \notin {Undefined, Null, ""}

\* C16 (as claimed): every row of the projects table has non-empty required
\* fields; a POST /api/projects lacking one of them is answered 400 without an
\* insert; one that supplies them all, whatever the coordinates, is inserted
\* with status "draft" (when the insert itself succeeds).
C16_Claim ==
    /\ \A i \in 1..Len(projects) :
         \A f \in RequiredProjectFields : Supplied(projects[i][f])
    /\ (Answered /\ resp.kind = "project")
       => IF \E f \in RequiredProjectFields : ~Supplied(resp.body[f])
          THEN resp.code = 400 /\ resp.writes = 0
          ELSE ~resp.storeFailed
               => /\ resp.code = 201
                  /\ resp.out[1].status = "draft"
                  /\ \E i \in 1..Len(projects) : projects[i] = resp.out[1]

\* the fields markMinted sets
MintedKeys == {"status"} \cup EvidenceKeys

\* C17 (as claimed): the step that answers a markMinted with success leaves the
\* store with the same records in the same order; the record of that id keeps
\* its id and every field other than status, txHash, tokenId and metadataURI,
\* and every other record is as it was.
C17_Claim ==
    [][(resp'.pc = "done" /\ resp'.kind = "minted" /\ resp'.code = 200)
       => /\ Len(store') = Len(store)
          /\ \A i \in 1..Len(store) :
               IF store[i].id = resp'.id
               THEN \A f \in (DOMAIN store[i] \cup DOMAIN store'[i]) \ MintedKeys :
                      Get(store'[i], f) = Get(store[i], f)
               ELSE store'[i] = store[i]]_vars

\* the requests in flight and the one just answered
Activations == Active \cup {resp}

\* C18: when every pending call eventually returns, every request is
\* eventually answered (no request stays in flight for ever); a step answers
\* exactly when a request leaves, at its arrival or at the return of a call,
\* so each request is answered once; no request has more than one pin call or
\* more than one store write; and a submit answered with an error made no
\* store write, and no store call at all when its pin call failed.
C18_Terminates ==
    /\ []<>(inflight = EmptyBag)
    /\ [][/\ resp'.pc = "done"
             <=> \/ BagCardinality(inflight') = BagCardinality(inflight) - 1
                 \/ arrived' = arrived + 1 /\ inflight' = inflight
          /\ BagCardinality(inflight') < BagCardinality(inflight) => arrived' = arrived]_vars
    /\ [](\A q \in Activations :
            /\ q.pinCalls <= 1 /\ q.writes <= 1
            /\ (q.pc = "done" /\ q.kind = "submit" /\ q.code >= 400) => q.writes = 0
            /\ (q.pc = "done" /\ q.pin = "fail") => q.at = "pin")

\* a submit whose load failed was answered 500 and nothing is in flight
C18_Witness ==
    /\ inflight = EmptyBag
    /\ Answered /\ resp.kind = "submit" /\ resp.at = "load" /\ resp.storeFailed
    /\ resp.code = 500 /\ resp.pinCalls = 1
    /\ arrived = MaxReq

\* C19: in the flat-file variants without PINATA_JWT, a submit that passes
\* validation is answered 500 at once, with no pin call and no store write,
\* and the store is as it was; one that fails validation is answered 400.
C19_NoCredential ==
    [][(/\ variant \in FlatVariants /\ ~jwt
        /\ resp'.pc = "done" /\ resp'.kind = "submit")
       => /\ IF Falsy(resp'.body.description) \/ resp'.file = NoFile
             THEN resp'.code = 400
             ELSE resp'.code = 500
          /\ resp'.at = "idle"
          /\ resp'.pinCalls = 0
          /\ resp'.writes = 0
          /\ store' = store]_vars

C19_Witness ==
    /\ variant \in FlatVariants /\ ~jwt
    /\ Answered /\ resp.kind = "submit" /\ resp.code = 500
    /\ resp.body = BodyFull /\ resp.file = <<File1>>
    /\ resp.pinCalls = 0
    /\ arrived > 1

====
